---- MODULE Spec2Model ----
(***************************************************************************)
(* A model of multichain.js: the JSON-RPC client of src/jsonrpc.js         *)
(* (request, JSONRPCRequest, JSONRPCClient) and the Multichain Client of   *)
(* src/unnamed/part_000 (multichain.js: Client, getConnectionByName,       *)
(* getChainNames).                                                         *)
(*                                                                         *)
(* JavaScript values are tagged records (field k is the tag); objects that *)
(* are shared by reference (connection option objects) live in `heap`.     *)
(* Array positions are 0-based as in the source; At(s, i) reads s[i].      *)
(***************************************************************************)
EXTENDS Integers, Sequences, FiniteSets, TLC

VARIABLES
  own,    \* own[c]: the own properties of client object c (name -> value)
  heap,   \* heap[o]: the fields of connection option object o
  fs,     \* the Multichain data folder: which files chain2 holds
  reqs,   \* the requests made so far, each with its response and promise
          \* (payload: what the server sends; failure: what the network
          \* raised; uncaught: what the 'end' listener threw)
  clock,  \* the uuid v1 timestamp source
  last,   \* the synchronous outcome of the last operation on a client
  arg     \* the caller's input drawn for SpecCall

vars == <<own, heap, fs, reqs, clock, last, arg>>

----------------------------------------------------------------------------
(* Bounds of the model.                                                    *)

MaxParams == 2   \* longest params array a caller passes
MaxCalls == 2    \* requests made in one run
MaxResolverCalls == 1  \* requests made in one run of SpecResolver

----------------------------------------------------------------------------
(* JavaScript values.                                                      *)

Undefined == [k |-> "undefined"]
Null == [k |-> "null"]
Num(n) == [k |-> "number", n |-> n]
Str(s) == [k |-> "string", s |-> s]
Bool(b) == [k |-> "boolean", b |-> b]
\* an object literal with one entry, { key: val }
Rec(key, val) == [k |-> "object", key |-> key, val |-> val]
\* a property that does not exist on the object
Absent == [k |-> "absent"]
\* the function the commands setter creates for `command`
Binding(command) == [k |-> "function", command |-> command]
\* a reference to a connection option object of the heap
ConnRef(o) == [k |-> "conn", ref |-> o]
\* a reference to a command object (a key of SchemaTable)
SchemaRef(id) == [k |-> "schema", id |-> id]

\* the value read from a property: undefined when it does not exist
Read(v) == IF v = Absent THEN Undefined ELSE v

\* ToBoolean: what `!x` and `x || y` test
Truthy(x) ==
  CASE x.k \in {"undefined", "null", "absent"} -> FALSE
    [] x.k = "number" -> x.n # 0
    [] x.k = "string" -> x.s # ""
    [] x.k = "boolean" -> x.b
    [] OTHER -> TRUE

\* the typeof operator
TypeOf(x) ==
  CASE x.k \in {"undefined", "absent"} -> "undefined"
    [] x.k \in {"null", "object", "conn", "schema"} -> "object"
    [] OTHER -> x.k

\* s[i] of an array s, 0-based: undefined past the end
At(s, i) == IF i + 1 \in DOMAIN s THEN s[i + 1] ELSE Undefined

----------------------------------------------------------------------------
(* Constants of src/jsonrpc.js.                                            *)

RPC_VERSION == "2.0"
METHOD_CASING == [DEFAULT |-> 0, UPPER |-> 1, LOWER |-> 2]

----------------------------------------------------------------------------
(* Command objects. A command object is a sequence of entries             *)
(* <<method name, parameter descriptors>> in insertion order, which is the *)
(* order for..in visits them in.                                           *)

SchemaRpc ==
  << <<"getinfo", <<>> >>,
     <<"send", <<Str("address"), Rec("amount", Num(1))>> >>,
     <<"list", <<Rec("verbose", Bool(FALSE)), Rec("count", Num(10))>> >>,
     <<"sign", <<Null, Str("key")>> >> >>

SchemaTable ==
  [empty |-> <<>>,
   rpc |-> SchemaRpc,
   a |-> << <<"a", <<>> >> >>,
   b |-> << <<"b", <<Str("x")>> >> >>,
   ab |-> << <<"a", <<>> >>, <<"b", <<>> >> >>,
   call |-> << <<"call", <<>> >>, <<"a", <<>> >> >>,
   connection |-> << <<"a", <<>> >>, <<"connection", <<>> >> >>,
   commands |-> << <<"a", <<>> >>, <<"commands", <<>> >>, <<"b", <<>> >> >>,
   methodCasing |-> << <<"methodCasing", <<>> >> >>,
   handlers |-> << <<"handleDefaults", <<>> >>, <<"handleCasing", <<>> >> >>]

\* the enumerable keys of a value used as a command object, in order
KeysOf(v) ==
  IF v.k = "schema"
  THEN [i \in DOMAIN SchemaTable[v.id] |-> SchemaTable[v.id][i][1]]
  ELSE <<>>

KeySet(v) == {KeysOf(v)[i] : i \in DOMAIN KeysOf(v)}

\* `method in commands`
In(method, v) == method \in KeySet(v)

\* commands[method]
Descriptors(v, method) ==
  LET s == SchemaTable[v.id]
      i == CHOOSE j \in DOMAIN s : s[j][1] = method
  IN s[i][2]

----------------------------------------------------------------------------
(* Outcomes of a synchronous evaluation: a returned value or a thrown one. *)

Return(v) == [t |-> "return", v |-> v]
Throw(e) == [t |-> "throw", e |-> e]

\* new Error(`Required parameter ${d} not found for method ${method} at
\* params[${i}]!`): the three interpolated values of the message
MissingParameterError(d, method, i) ==
  [k |-> "error", name |-> "Error", required |-> d, method |-> method, pos |-> i]
\* Object.keys(null): "Cannot convert undefined or null to object"
TypeErrorValue == [k |-> "error", name |-> "TypeError"]
\* unbounded recursion: "Maximum call stack size exceeded"
RangeErrorValue == [k |-> "error", name |-> "RangeError"]

----------------------------------------------------------------------------
(* JSONRPCClient.handleCasing and JSONRPCClient.handleDefaults.            *)

MethodNames == {"getinfo", "GetInfo", "send", "list", "sign", " ping"}

toUpperCase(method) ==
  CASE method \in {"getinfo", "GetInfo"} -> "GETINFO"
    [] method = "send" -> "SEND"
    [] method = "list" -> "LIST"
    [] method = "sign" -> "SIGN"
    [] method = " ping" -> " PING"
    [] OTHER -> method

toLowerCase(method) ==
  CASE method = "GetInfo" -> "getinfo"
    [] OTHER -> method

\* String.prototype.trim on the method names of the model
trim(method) ==
  CASE method = " ping" -> "ping"
    [] method = " PING" -> "PING"
    [] OTHER -> method

handleCasing(methodCasing, method) ==
  IF methodCasing = Num(METHOD_CASING.DEFAULT) THEN method
  ELSE IF methodCasing = Num(METHOD_CASING.UPPER) THEN toUpperCase(method)
  ELSE IF methodCasing = Num(METHOD_CASING.LOWER) THEN toLowerCase(method)
  ELSE method

\* the loop of handleDefaults from position i on, r being the output so far
RECURSIVE handleDefaultsFrom(_, _, _, _, _)
handleDefaultsFrom(descs, method, params, i, r) ==
  IF ~(i < Len(descs)) THEN Return(r)
  ELSE LET d == descs[i + 1]
           p == At(params, i)
       IN IF TypeOf(d) # "object" /\ ~Truthy(p)
          THEN Throw(MissingParameterError(d, method, i))
          ELSE IF Truthy(p)
          THEN handleDefaultsFrom(descs, method, params, i + 1, Append(r, p))
          \* d[Object.keys(d)[0]]: Object.keys throws on null
          ELSE IF d = Null THEN Throw(TypeErrorValue)
          ELSE handleDefaultsFrom(descs, method, params, i + 1, Append(r, d.val))

\* handleDefaults with `params[i] !== undefined` as the test for an input
\* value, in place of its truthiness
RECURSIVE handleDefaultsFromDefined(_, _, _, _, _)
handleDefaultsFromDefined(descs, method, params, i, r) ==
  IF ~(i < Len(descs)) THEN Return(r)
  ELSE LET d == descs[i + 1]
           p == At(params, i)
       IN IF TypeOf(d) # "object" /\ p = Undefined
          THEN Throw(MissingParameterError(d, method, i))
          ELSE IF p # Undefined
          THEN handleDefaultsFromDefined(descs, method, params, i + 1, Append(r, p))
          ELSE IF d = Null THEN Throw(TypeErrorValue)
          ELSE handleDefaultsFromDefined(descs, method, params, i + 1,
                                         Append(r, d.val))

handleDefaultsDefined(commands, method, params) ==
  IF In(method, commands)
  THEN handleDefaultsFromDefined(Descriptors(commands, method), method, params,
                                 0, <<>>)
  ELSE Return(<<>>)

handleDefaults(commands, method, params) ==
  IF In(method, commands)
  THEN handleDefaultsFrom(Descriptors(commands, method), method, params, 0, <<>>)
  ELSE Return(<<>>)

----------------------------------------------------------------------------
(* Objects: clients and connection option objects.                        *)

Clients == {"c1", "c2"}
ConnIds == {"o1", "o2"}

Reserved ==
  {"call", "commands", "connection", "methodCasing", "handleDefaults", "handleCasing"}

SchemaIds == DOMAIN SchemaTable

\* an object with no own property
NoProps == [p \in {} |-> Absent]

\* the own property `name` of object o, Absent when it has none
Get(o, name) == IF name \in DOMAIN o THEN o[name] ELSE Absent

ConnFields == {"protocol", "port", "user", "pass", "auth", "method", "headers"}

\* the object literal {}
EmptyConn == [f \in ConnFields |-> Absent]

----------------------------------------------------------------------------
(* JSONRPCClient: the commands setter and the constructor.                 *)
(* this[name] = value runs the setter of the prototype's accessor          *)
(* `commands`; every other name becomes (or overwrites) an own property,   *)
(* shadowing the prototype's method of that name.                          *)

RECURSIVE Put(_, _, _), setCommands(_, _), bindFrom(_, _, _)

\* delete this[command] for every command of `keys`
deleteAll(o, keys) == [p \in DOMAIN o \ keys |-> o[p]]

\* an own data property is created or overwritten
define(o, name, value) ==
  [p \in DOMAIN o \cup {name} |-> IF p = name THEN value ELSE o[p]]

\* this[name] = value
Put(o, name, value) ==
  IF name = "commands" THEN setCommands(o, value)
  ELSE define(o, name, value)

\* the second loop of the setter, over keys[i..]
bindFrom(o, keys, i) ==
  IF i > Len(keys) THEN o
  ELSE bindFrom(Put(o, keys[i], Binding(keys[i])), keys, i + 1)

\* set commands (value)
setCommands(o, value) ==
  LET o1 == deleteAll(o, KeySet(Read(Get(o, "_commands"))))
      o2 == define(o1, "_commands", value)
  IN bindFrom(o2, KeysOf(value), 1)

\* constructor (connection, commands, methodCasing)
JSONRPCClient(connection, commands, methodCasing) ==
  LET o1 == Put(NoProps, "connection", connection)
      o2 == Put(o1, "commands", commands)
  IN Put(o2, "methodCasing", methodCasing)

----------------------------------------------------------------------------
(* request and JSONRPCClient.call.                                         *)

\* the length of JSON.stringify of a parameter value
jsonLength(v) ==
  CASE v.k = "number" -> IF v.n < 10 THEN 1 ELSE 2
    [] v.k = "string" -> Len(v.s) + 2
    [] v.k = "boolean" -> IF v.b THEN 4 ELSE 5
    [] OTHER -> 4

RECURSIVE sumLength(_)
sumLength(params) ==
  IF params = <<>> THEN 0 ELSE jsonLength(Head(params)) + sumLength(Tail(params))

\* Buffer.byteLength(JSON.stringify(new JSONRPCRequest(method, params))):
\* {"id":"<36 characters>","method":"..","params":[..],"jsonrpc":"2.0"}
byteLength(method, params) ==
  80 + Len(method) + Len(RPC_VERSION)
    + 2 + sumLength(params) + (IF Len(params) > 1 THEN Len(params) - 1 ELSE 0)

\* new JSONRPCRequest(method, params), with uuid() read from the clock
JSONRPCRequest(id, method, params) ==
  [id |-> id, method |-> method, params |-> params, jsonrpc |-> RPC_VERSION]

\* `${options.user}:${options.pass}`
authOf(conn) == Str(conn.user.s \o ":" \o conn.pass.s)

\* what request assigns to the fields of options (lines 30-36)
requestOptions(conn, method, params) ==
  LET c1 == [conn EXCEPT
               !.headers = [k |-> "headers", ctype |-> "application/json",
                            clen |-> byteLength(trim(method), params)],
               !.method = Str("POST")]
  IN IF Truthy(conn.user) /\ Truthy(conn.pass)
     THEN [c1 EXCEPT !.auth = authOf(conn)]
     ELSE c1

\* the library request picks
webOf(conn) ==
  IF Truthy(conn.protocol) /\ conn.protocol.s \in {"https", "https:"}
  THEN "https" ELSE "http"

----------------------------------------------------------------------------
(* The HTTP exchange: what the server (or the network) answers.            *)

\* res.statusCode, res.headers['content-type'] and the body, cut in chunks
Responses ==
  { [statusCode |-> 200, ctype |-> "application/json",
     chunks |-> <<"{\"result\":42,", "\"error\":null,\"id\":\"x\"}">>],
    [statusCode |-> 200, ctype |-> "application/json",
     chunks |-> <<"{\"result\":null,\"error\":{\"code\":-1},\"id\":\"x\"}">>],
    [statusCode |-> 200, ctype |-> "text/html", chunks |-> <<"<html>">>],
    [statusCode |-> 200, ctype |-> "application/json", chunks |-> <<>>],
    [statusCode |-> 500, ctype |-> "application/json",
     chunks |-> <<"{\"error\":", "\"boom\"}">>],
    [statusCode |-> 500, ctype |-> "application/json; charset=utf-8",
     chunks |-> <<"{\"error\":\"boom\"}">>],
    [statusCode |-> 500, ctype |-> "text/plain",
     chunks |-> <<"Internal Server Error">>],
    [statusCode |-> 502, ctype |-> "application/json", chunks |-> <<"<html>">>] }

NetworkErrors ==
  { [k |-> "error", name |-> "Error", code |-> "ECONNREFUSED"],
    [k |-> "error", name |-> "Error", code |-> "ENOTFOUND"] }

\* JSON.parse on the bodies of the model: the parsed value, or a SyntaxError
SyntaxErrorValue == [k |-> "error", name |-> "SyntaxError"]

JSONparse(body) ==
  CASE body = "{\"result\":42,\"error\":null,\"id\":\"x\"}" ->
         Return([k |-> "json", result |-> Num(42), error |-> Null, id |-> Str("x")])
    [] body = "{\"result\":null,\"error\":{\"code\":-1},\"id\":\"x\"}" ->
         Return([k |-> "json", result |-> Null, error |-> Rec("code", Num(-1)),
                 id |-> Str("x")])
    [] body = "{\"error\":\"boom\"}" ->
         Return([k |-> "json", error |-> Str("boom")])
    [] OTHER -> Throw(SyntaxErrorValue)

\* new Error(`Request failed. HTTP ${res.statusCode}`)
HTTPError(statusCode) == [k |-> "error", name |-> "Error", http |-> statusCode]

Pending == [state |-> "pending"]
Resolved(v) == [state |-> "resolved", value |-> v]
Rejected(e) == [state |-> "rejected", value |-> e]

\* resolve(v) or reject(e) on a promise: only the first one settles it
settle(promise, outcome) == IF promise = Pending THEN outcome ELSE promise

NoRes == [statusCode |-> 0, ctype |-> ""]

\* what the 'end' listener does with the response (lines 41-49): the
\* settlement it asks for, or the exception that leaves the listener
onEnd(res, body) ==
  IF res.statusCode = 200
  THEN LET j == JSONparse(body)
       IN IF j.t = "throw" THEN j ELSE Return(Resolved(j.v))
  ELSE IF res.ctype = "application/json"
  THEN LET j == JSONparse(body)
       IN IF j.t = "throw" THEN j ELSE Return(Rejected(j.v))
  ELSE Return(Rejected(HTTPError(res.statusCode)))

----------------------------------------------------------------------------
(* Strings read from files are sequences of one-character strings, so     *)
(* that trim, split, startsWith and find are computed as the source does.  *)

Whitespace == {" ", "\n", "\t", "\r"}

RECURSIVE trimStart(_)
trimStart(s) ==
  IF s # <<>> /\ Head(s) \in Whitespace THEN trimStart(Tail(s)) ELSE s

RECURSIVE trimEnd(_)
trimEnd(s) ==
  IF s # <<>> /\ s[Len(s)] \in Whitespace
  THEN trimEnd(SubSeq(s, 1, Len(s) - 1)) ELSE s

\* String.prototype.trim
trimText(s) == trimEnd(trimStart(s))

\* String.prototype.split(sep) for a one-character separator: cur is the
\* piece being read, acc the pieces before it
RECURSIVE splitFrom(_, _, _, _)
splitFrom(s, sep, cur, acc) ==
  IF s = <<>> THEN Append(acc, cur)
  ELSE IF Head(s) = sep THEN splitFrom(Tail(s), sep, <<>>, Append(acc, cur))
  ELSE splitFrom(Tail(s), sep, Append(cur, Head(s)), acc)

split(s, sep) == splitFrom(s, sep, <<>>, <<>>)

\* s.split(/\s+/g)[0]: the characters before the first whitespace
RECURSIVE firstToken(_)
firstToken(s) ==
  IF s = <<>> \/ Head(s) \in Whitespace THEN <<>>
  ELSE <<Head(s)>> \o firstToken(Tail(s))

\* String.prototype.startsWith
startsWith(s, prefix) ==
  Len(s) >= Len(prefix) /\ SubSeq(s, 1, Len(prefix)) = prefix

\* the characters as one string value
RECURSIVE textOf(_)
textOf(s) == IF s = <<>> THEN "" ELSE Head(s) \o textOf(Tail(s))

\* text.trim().split('\n').map((element) => element.trim())
linesOf(text) ==
  LET l == split(trimText(text), "\n") IN [i \in DOMAIN l |-> trimText(l[i])]

\* Array.prototype.find from position i on: the index found, 0 when none
RECURSIVE findFrom(_, _, _)
findFrom(l, prefix, i) ==
  IF i > Len(l) THEN 0
  ELSE IF startsWith(l[i], prefix) THEN i
  ELSE findFrom(l, prefix, i + 1)

DefaultRpcPort ==
  <<"d", "e", "f", "a", "u", "l", "t", "-", "r", "p", "c", "-", "p", "o",
    "r", "t">>

----------------------------------------------------------------------------
(* The Multichain data folder CHAIN_PATH.                                  *)

NoFile == [exists |-> FALSE, text |-> <<>>]
File(text) == [exists |-> TRUE, text |-> text]

ConfGood ==
  <<"r", "p", "c", "u", "s", "e", "r", "=", "u", "1", "\n", "r", "p", "c",
    "p", "a", "s", "s", "w", "o", "r", "d", "=", "p", "1", "\n">>

ConfOther ==
  <<"r", "p", "c", "u", "s", "e", "r", "=", "u", "2", "\n", "r", "p", "c",
    "p", "a", "s", "s", "w", "o", "r", "d", "=", "p", "2", "\n">>

ConfOneLine ==
  <<"r", "p", "c", "u", "s", "e", "r", "=", "u", "2", "\n">>

ConfNoValue ==
  <<"r", "p", "c", "u", "s", "e", "r", "\n", "r", "p", "c", "p", "a", "s",
    "s", "w", "o", "r", "d", "=", "p", "2", "\n">>

ParamsGood ==
  <<"c", "h", "a", "i", "n", "-", "n", "a", "m", "e", " ", "=", " ", "c",
    "\n", "d", "e", "f", "a", "u", "l", "t", "-", "r", "p", "c", "-", "p",
    "o", "r", "t", " ", "=", " ", "6", "8", "2", "4", " ", " ", " ", " ",
    "#", " ", "r", "p", "c", "\n">>

ParamsOther ==
  <<"d", "e", "f", "a", "u", "l", "t", "-", "r", "p", "c", "-", "p", "o",
    "r", "t", "=", "7", "0", "0", "0", "\n">>

ParamsNoPort ==
  <<"c", "h", "a", "i", "n", "-", "n", "a", "m", "e", " ", "=", " ", "c",
    "\n">>

\* the files of the model by name; "missing" is a file that does not exist
FileTable ==
  [good |-> File(ConfGood), other |-> File(ConfOther),
   oneline |-> File(ConfOneLine), novalue |-> File(ConfNoValue),
   params |-> File(ParamsGood), paramsOther |-> File(ParamsOther),
   noport |-> File(ParamsNoPort), missing |-> NoFile]

Dir(name, conf, params) ==
  [name |-> name, isDirectory |-> TRUE, conf |-> conf, params |-> params]

\* what readdirSync(CHAIN_PATH) lists: chain1, a hidden file, the daemon's
\* directory, and chain2 with the two files `files` names
entries(files) ==
  << Dir("chain1", "good", "params"),
     [name |-> ".cli_history", isDirectory |-> FALSE, conf |-> "missing",
      params |-> "missing"],
     Dir("multichaind", "missing", "missing"),
     Dir("chain2", files.conf, files.params) >>

\* the states of chain2's files
FileSystems ==
  { [conf |-> "other", params |-> "paramsOther"],
    [conf |-> "oneline", params |-> "paramsOther"],
    [conf |-> "novalue", params |-> "paramsOther"],
    [conf |-> "other", params |-> "noport"],
    [conf |-> "other", params |-> "missing"],
    [conf |-> "missing", params |-> "paramsOther"] }

ChainNames == {"chain1", "chain2", "multichaind", "chain9"}

\* element.startsWith('.') on the entry names of the model
hidden(name) == name = ".cli_history"

\* Client.getChainNames
getChainNames(dir) ==
  {dir[i].name : i \in {j \in DOMAIN dir :
     dir[j].isDirectory /\ ~hidden(dir[j].name) /\ dir[j].name # "multichaind"}}

entryOf(dir, name) == dir[CHOOSE i \in DOMAIN dir : dir[i].name = name]

InvalidChain == [k |-> "error", name |-> "Error", message |-> "Invalid Chain!"]
ENOENT == [k |-> "error", name |-> "Error", code |-> "ENOENT"]

\* Ended(conn, e): the call ended with conn the fields of the connection
\* object, having thrown e (or returned, e = Undefined)
Ended(conn, e) == [conn |-> conn, e |-> e]

\* line.split('=')[1] as a value
secondField(line) ==
  LET f == split(line, "=") IN IF Len(f) >= 2 THEN Str(textOf(f[2])) ELSE Undefined

\* the lines of multichain.conf (part_000 lines 54-56), for each file
configOf == [id \in DOMAIN FileTable |-> linesOf(FileTable[id].text)]

\* the port read from params.dat (part_000 lines 59-63), for each file:
\* find gives undefined when no line starts with default-rpc-port, and
\* split('=')[1] when the line has no '='
portOf ==
  [id \in DOMAIN FileTable |->
     LET l == linesOf(FileTable[id].text)
         found == findFrom(l, DefaultRpcPort, 1)
         f == split(l[found], "=")
     IN IF found = 0 \/ Len(f) < 2 THEN Throw(TypeErrorValue)
        ELSE Return(Str(textOf(firstToken(trimText(f[2])))))]

\* Client.getConnectionByName(name, connection), conn being the fields of
\* the connection object it writes to
getConnectionByName(files, name, conn) ==
  IF name \notin getChainNames(entries(files)) THEN Ended(conn, InvalidChain)
  ELSE LET e == entryOf(entries(files), name)
           config == configOf[e.conf]
           c1 == [conn EXCEPT !.user = secondField(config[1])]
           c2 == [c1 EXCEPT !.pass = secondField(config[2])]
       IN IF ~FileTable[e.conf].exists THEN Ended(conn, ENOENT)
          ELSE IF Len(config) < 2 THEN Ended(c1, TypeErrorValue)
          ELSE IF ~FileTable[e.params].exists THEN Ended(c2, ENOENT)
          ELSE IF portOf[e.params].t = "throw" THEN Ended(c2, portOf[e.params].e)
          ELSE Ended([c2 EXCEPT !.port = portOf[e.params].v], Undefined)

----------------------------------------------------------------------------
(* Operations on a client. `last` records what the caller of the last     *)
(* operation saw: its input, and the error thrown at it if any.            *)

Op(op, c, input, e) ==
  [op |-> op, client |-> c, input |-> input, threw |-> e # Undefined, e |-> e]

constructed(c) == own[c] # NoProps

\* the fields of the object this.connection refers to
fieldsOf(v) == IF v.k = "conn" THEN heap[v.ref] ELSE EmptyConn

\* the connection configuration client c holds
Config(c) == fieldsOf(Read(Get(own[c], "connection")))

\* request(method, params, options), lines 24-58: the option object is
\* written to, the request is handed to http(s).request and sent
request(c, input, method, params, options) ==
  LET conn == requestOptions(fieldsOf(options), method, params)
      r == [req |-> JSONRPCRequest(clock, trim(method), params),
            client |-> c,
            web |-> webOf(fieldsOf(options)),
            options |-> conn,
            phase |-> "sent",
            res |-> NoRes,
            payload |-> <<>>,
            pending |-> <<>>,
            body |-> "",
            promise |-> Pending,
            failure |-> Undefined,
            uncaught |-> Undefined]
  IN /\ reqs' = Append(reqs, r)
     /\ clock' = clock + 1
     /\ heap' = IF options.k = "conn" THEN [heap EXCEPT ![options.ref] = conn]
                ELSE heap
     /\ last' = Op("call", c, input, Undefined)
     /\ UNCHANGED <<own, fs, arg>>

\* this.call(method, params) on client c, lines 122-124. A command function
\* stored under call, handleCasing or handleDefaults calls this.call again
\* without end.
call(c, method, params) ==
  LET o == own[c]
      input == [method |-> method, params |-> params]
      defaults == handleDefaults(Read(Get(o, "_commands")), method, params)
      e == IF \E n \in {"call", "handleCasing", "handleDefaults"} :
                Get(o, n).k = "function"
           THEN RangeErrorValue
           ELSE IF defaults.t = "throw" THEN defaults.e ELSE Undefined
  IN /\ constructed(c)
     /\ Len(reqs) < MaxCalls
     /\ IF e # Undefined
        THEN /\ last' = Op("call", c, input, e)
             /\ UNCHANGED <<own, heap, fs, reqs, clock, arg>>
        ELSE request(c, input,
                     handleCasing(Read(Get(o, "methodCasing")), method),
                     defaults.v, Read(Get(o, "connection")))

\* client[command](...args): the function of lines 111-113
invoke(c, command, args) ==
  /\ Get(own[c], command).k = "function"
  /\ call(c, Get(own[c], command).command, args)

\* new JSONRPCClient(connection, commands, methodCasing)
construct(c, o, id, methodCasing) ==
  /\ ~constructed(c)
  /\ own' = [own EXCEPT ![c] =
               JSONRPCClient(ConnRef(o), SchemaRef(id), Num(methodCasing))]
  /\ last' = Op("new", c, id, Undefined)
  /\ UNCHANGED <<heap, fs, reqs, clock, arg>>

\* client.commands = value
assignCommands(c, id) ==
  /\ constructed(c)
  /\ own' = [own EXCEPT ![c] = setCommands(own[c], SchemaRef(id))]
  /\ last' = Op("commands", c, id, Undefined)
  /\ UNCHANGED <<heap, fs, reqs, clock, arg>>

\* client.connection = o
assignConnection(c, o) ==
  /\ constructed(c)
  /\ own' = [own EXCEPT ![c] = Put(own[c], "connection", ConnRef(o))]
  /\ last' = Op("connection", c, o, Undefined)
  /\ UNCHANGED <<heap, fs, reqs, clock, arg>>

\* set name (value) run on the object obj (part_000 lines 40-43): the
\* object after it, the heap after it and the error thrown
setName(obj, value) ==
  LET cur == Read(Get(obj, "connection"))
      got == getConnectionByName(fs, value, fieldsOf(cur))
  IN [obj |-> IF got.e = Undefined
              THEN define(Put(obj, "connection", cur), "_name", Str(value))
              ELSE obj,
      heap |-> IF cur.k = "conn" THEN [heap EXCEPT ![cur.ref] = got.conn]
               ELSE heap,
      e |-> got.e]

\* client.name = value
assignName(c, value) ==
  LET after == setName(own[c], value)
  IN /\ constructed(c)
     /\ own' = [own EXCEPT ![c] = after.obj]
     /\ heap' = after.heap
     /\ last' = Op("name", c, [value |-> value, name |-> Get(own[c], "_name"),
                               conn |-> Config(c)], after.e)
     /\ UNCHANGED <<fs, reqs, clock, arg>>

\* new Client(name, commands, connection), part_000 lines 23-26; with
\* commands null the table of commands.js is used. When the name setter
\* throws there is no client.
newClient(c, value, id, o) ==
  LET after == setName(JSONRPCClient(ConnRef(o), SchemaRef(id),
                                     Num(METHOD_CASING.LOWER)), value)
  IN /\ ~constructed(c)
     /\ own' = IF after.e = Undefined THEN [own EXCEPT ![c] = after.obj] ELSE own
     /\ heap' = after.heap
     /\ last' = Op("new", c, [value |-> value, name |-> Absent,
                              conn |-> heap[o]], after.e)
     /\ UNCHANGED <<fs, reqs, clock, arg>>

----------------------------------------------------------------------------
(* The events of a request: the response callback, 'data', 'end', and      *)
(* 'error' on the request.                                                 *)

\* the callback of web.request runs (line 38): let body = ''
respond(i, r) ==
  /\ reqs[i].phase = "sent"
  /\ reqs' = [reqs EXCEPT ![i] =
                [@ EXCEPT !.phase = "response",
                          !.res = [statusCode |-> r.statusCode, ctype |-> r.ctype],
                          !.payload = r.chunks,
                          !.pending = r.chunks,
                          !.body = ""]]
  /\ UNCHANGED <<own, heap, fs, clock, last, arg>>

\* res.on('data'): body += chunk
data(i) ==
  /\ reqs[i].phase = "response"
  /\ reqs[i].pending # <<>>
  /\ reqs' = [reqs EXCEPT ![i] =
                [@ EXCEPT !.body = @ \o Head(reqs[i].pending),
                          !.pending = Tail(@)]]
  /\ UNCHANGED <<own, heap, fs, clock, last, arg>>

\* res.on('end')
end(i) ==
  LET done == onEnd(reqs[i].res, reqs[i].body)
  IN /\ reqs[i].phase = "response"
     /\ reqs[i].pending = <<>>
     /\ reqs' = [reqs EXCEPT ![i] =
                   IF done.t = "throw"
                   THEN [@ EXCEPT !.phase = "ended", !.uncaught = done.e]
                   ELSE [@ EXCEPT !.phase = "ended",
                                  !.promise = settle(@, done.v)]]
     /\ UNCHANGED <<own, heap, fs, clock, last, arg>>

\* request.on('error'): reject(err)
error(i, err) ==
  /\ reqs[i].phase = "sent"
  /\ reqs' = [reqs EXCEPT ![i] =
                [@ EXCEPT !.phase = "failed",
                          !.failure = err,
                          !.promise = settle(@, Rejected(err))]]
  /\ UNCHANGED <<own, heap, fs, clock, last, arg>>

----------------------------------------------------------------------------
(* What callers pass.                                                      *)

ParamValues == {Undefined, Num(0), Str(""), Bool(FALSE), Str("x"), Num(7)}

ParamSeqs(n) == UNION {[1..k -> ParamValues] : k \in 0..n}

NoOp == [op |-> "none", threw |-> FALSE]

\* a connection object as getConnectionByName leaves it for chain1
GoodFiles == [conf |-> "other", params |-> "paramsOther"]

ResolvedConn == getConnectionByName(GoodFiles, "chain1", EmptyConn).conn

----------------------------------------------------------------------------
(* SpecCall: one call of call(method, params) on a constructed client,     *)
(* for every method, params array, command object and casing drawn by      *)
(* Init.                                                                   *)

InitCall ==
  /\ arg \in [method : MethodNames, params : ParamSeqs(MaxParams),
              commands : {"rpc", "empty"},
              methodCasing : {METHOD_CASING.DEFAULT, METHOD_CASING.UPPER,
                              METHOD_CASING.LOWER}]
  /\ own = [c \in Clients |->
              IF c = "c1"
              THEN JSONRPCClient(ConnRef("o1"), SchemaRef(arg.commands),
                                 Num(arg.methodCasing))
              ELSE NoProps]
  /\ heap = [o \in ConnIds |-> IF o = "o1" THEN ResolvedConn ELSE EmptyConn]
  /\ fs = GoodFiles
  /\ reqs = <<>>
  /\ clock = 1
  /\ last = NoOp

CallArg == call("c1", arg.method, arg.params)

\* the same call through the command function bound for the method
InvokeArg == invoke("c1", arg.method, arg.params)

NextCall == CallArg \/ InvokeArg

SpecCall == InitCall /\ [][NextCall]_vars

\* the request the last call made, when it threw nothing
lastReq == reqs[Len(reqs)]

\* the command object client c holds
commandsOf(c) == Read(Get(own[c], "_commands"))

\* a call of client.call has just been made on a method of the command object
CalledKnown ==
  /\ last.op = "call"
  /\ In(last.input.method, commandsOf(last.client))

\* C1: for a method that is not a key of the command object, call hands the
\* transport exactly the caller's params
C1_UnknownMethodPassesParams ==
  (last.op = "call" /\ ~In(last.input.method, commandsOf(last.client)))
    => /\ ~last.threw
       /\ lastReq.req.params = last.input.params

\* position i of `descs` holds a required-marker (no record) and the caller
\* passed no value there
missingAt(descs, params, i) == descs[i + 1].k # "object" /\ ~Truthy(At(params, i))

\* C3: when the caller passes no value at a position whose descriptor is a
\* required-marker, the call fails with the missing-parameter error naming
\* the method and such a position, and no request is made (in SpecCall the
\* only calls are those of arg, so none is ever made)
C3_MissingRequiredFails ==
  LET descs == Descriptors(commandsOf(last.client), last.input.method)
      params == last.input.params
  IN (CalledKnown /\ \E i \in 0..(Len(descs) - 1) : missingAt(descs, params, i))
       => /\ last.threw
          /\ last.e.name = "Error"
          /\ last.e.method = last.input.method
          /\ last.e.pos \in 0..(Len(descs) - 1)
          /\ missingAt(descs, params, last.e.pos)
          /\ reqs = <<>>

\* C4: a call on a method of the command object that does not fail sends one
\* entry per position of the method's descriptors: the caller's value where
\* it is truthy, the descriptor's default value elsewhere
C4_DefaultsFilled ==
  LET descs == Descriptors(commandsOf(last.client), last.input.method)
      params == last.input.params
      sent == lastReq.req.params
  IN (CalledKnown /\ ~last.threw)
       => /\ Len(sent) = Len(descs)
          /\ \A i \in 0..(Len(descs) - 1) :
               IF Truthy(At(params, i)) THEN sent[i + 1] = At(params, i)
               ELSE /\ descs[i + 1].k = "object"
                    /\ sent[i + 1] = descs[i + 1].val

\* a falsy value the caller passed was replaced by the default
C4_Witness ==
  /\ CalledKnown /\ ~last.threw
  /\ \E i \in 0..(Len(last.input.params) - 1) :
       /\ last.input.params[i + 1] \in {Num(0), Bool(FALSE), Str("")}
       /\ i < Len(lastReq.req.params)
       /\ lastReq.req.params[i + 1] # last.input.params[i + 1]
       /\ lastReq.req.params[i + 1] = Num(1)

----------------------------------------------------------------------------
(* SpecBind: a JSONRPCClient is constructed, its command object is         *)
(* assigned again and again, and its methods are called.                   *)

InitBind ==
  /\ own = [c \in Clients |-> NoProps]
  /\ heap = [o \in ConnIds |-> EmptyConn]
  /\ fs = GoodFiles
  /\ reqs = <<>>
  /\ clock = 1
  /\ last = NoOp
  /\ arg = NoOp

Construct ==
  \E id \in SchemaIds, methodCasing \in {METHOD_CASING.DEFAULT, METHOD_CASING.LOWER} :
    construct("c1", "o1", id, methodCasing)

AssignCommands == \E id \in SchemaIds : assignCommands("c1", id)

Invoke == \E command \in DOMAIN own["c1"] : invoke("c1", command, <<>>)

CallPing == call("c1", " ping", <<>>)

NextBind == Construct \/ AssignCommands \/ Invoke \/ CallPing

SpecBind == InitBind /\ [][NextBind]_vars

\* the names under which client c holds a command function
Bound(c) == {p \in DOMAIN own[c] : own[c][p].k = "function"}

\* C2: the command functions bound on a client are those of the keys of its
\* current command object, each forwarding to call under its own key
C2_BindingsMatchCommands ==
  \A c \in Clients :
    constructed(c) =>
      /\ Bound(c) = KeySet(commandsOf(c))
      /\ \A command \in Bound(c) : own[c][command] = Binding(command)

\* C7: a command object with a key that is a reserved property of the
\* client is refused with an error, and the client's call, handleDefaults,
\* handleCasing, commands, connection and methodCasing stay what they were
C7_ReservedKeysRefused ==
  /\ (last.op \in {"new", "commands"}
        /\ KeySet(SchemaRef(last.input)) \cap Reserved # {})
       => last.threw
  /\ \A c \in Clients :
       constructed(c) =>
         /\ \A n \in {"call", "handleDefaults", "handleCasing"} :
              Get(own[c], n) = Absent
         /\ Get(own[c], "connection").k = "conn"
         /\ Get(own[c], "methodCasing").k = "number"
         /\ Get(own[c], "_commands").k = "schema"

----------------------------------------------------------------------------
(* Spec: calls on one client and the events of their HTTP exchanges, in    *)
(* every order.                                                            *)

Init ==
  /\ own = [c \in Clients |->
              IF c = "c1"
              THEN JSONRPCClient(ConnRef("o1"), SchemaRef("rpc"),
                                 Num(METHOD_CASING.LOWER))
              ELSE NoProps]
  /\ heap = [o \in ConnIds |-> IF o = "o1" THEN ResolvedConn ELSE EmptyConn]
  /\ fs = GoodFiles
  /\ reqs = <<>>
  /\ clock = 1
  /\ last = NoOp
  /\ arg = NoOp

Call ==
  \E method \in {"getinfo", "send"}, params \in {<<>>, <<Str("x")>>} :
    call("c1", method, params)

Respond == \E i \in DOMAIN reqs, r \in Responses : respond(i, r)

Data == \E i \in DOMAIN reqs : data(i)

End == \E i \in DOMAIN reqs : end(i)

Error == \E i \in DOMAIN reqs, err \in NetworkErrors : error(i, err)

Next == Call \/ Respond \/ Data \/ End \/ Error

Spec == Init /\ [][Next]_vars

\* the exchange of request i is over: its response ended or the network failed
over(i) == reqs[i].phase \in {"ended", "failed"}

\* the whole body the server sent for request i
RECURSIVE concat(_)
concat(chunks) == IF chunks = <<>> THEN "" ELSE Head(chunks) \o concat(Tail(chunks))

sentBody(i) == concat(reqs[i].payload)

\* C5: status 200 resolves with the parsed JSON body; a non-200 status with
\* a JSON body rejects with the parsed body, with another body it rejects
\* with the HTTP status error; a network failure rejects with its error
C5_OutcomeByExchange ==
  \A i \in DOMAIN reqs :
    LET json == JSONparse(sentBody(i))
        status == reqs[i].res.statusCode
    IN /\ reqs[i].phase = "failed" => reqs[i].promise = Rejected(reqs[i].failure)
       /\ (reqs[i].phase = "ended" /\ status = 200 /\ json.t = "return")
            => reqs[i].promise = Resolved(json.v)
       /\ (reqs[i].phase = "ended" /\ status # 200 /\ json.t = "return")
            => reqs[i].promise = Rejected(json.v)
       /\ (reqs[i].phase = "ended" /\ status # 200 /\ json.t = "throw")
            => reqs[i].promise = Rejected(HTTPError(status))

\* C6: a call whose exchange is over has its promise settled, resolved with
\* a parsed response or rejected with an error; nothing was thrown past it
C6_SettledWhenOver ==
  \A i \in DOMAIN reqs :
    over(i) => /\ reqs[i].promise.state \in {"resolved", "rejected"}
               /\ reqs[i].uncaught = Undefined

\* C8: two calls in flight have distinct ids, each body holds the chunks of
\* its own response in order, and each call whose exchange is over is
\* settled with the outcome of its own exchange, whatever the other did
C8_CallsIndependent ==
  \A i, j \in DOMAIN reqs :
    i # j =>
      /\ reqs[i].req.id # reqs[j].req.id
      /\ reqs[i].phase \in {"response", "ended"}
           => reqs[i].body \o concat(reqs[i].pending) = sentBody(i)
      /\ reqs[i].phase = "failed" => reqs[i].promise = Rejected(reqs[i].failure)
      /\ reqs[i].phase = "ended"
           => /\ reqs[i].promise.state \in {"resolved", "rejected"}
              /\ \/ reqs[i].promise.value = HTTPError(reqs[i].res.statusCode)
                 \/ /\ JSONparse(sentBody(i)).t = "return"
                    /\ reqs[i].promise.value = JSONparse(sentBody(i)).v

----------------------------------------------------------------------------
(* SpecResolver: Multichain clients are constructed for a chain name,      *)
(* given another name or another connection object, and called, over every *)
(* state of chain2's files.                                                *)

InitResolver ==
  /\ fs \in FileSystems
  /\ own = [c \in Clients |-> NoProps]
  /\ heap = [o \in ConnIds |-> EmptyConn]
  /\ reqs = <<>>
  /\ clock = 1
  /\ last = NoOp
  /\ arg = NoOp

NewClient ==
  \E c \in Clients, value \in ChainNames, o \in ConnIds :
    newClient(c, value, "empty", o)

AssignName == \E c \in Clients, value \in ChainNames : assignName(c, value)

AssignConnection == \E c \in Clients, o \in ConnIds : assignConnection(c, o)

CallGetinfo ==
  /\ Len(reqs) < MaxResolverCalls
  /\ \E c \in Clients : call(c, "getinfo", <<>>)

NextResolver == NewClient \/ AssignName \/ AssignConnection \/ CallGetinfo

SpecResolver == InitResolver /\ [][NextResolver]_vars

\* C9: a step that makes a request (call, a command function, the
\* transport) leaves the connection configuration of every client as it
\* was, and giving a client a name leaves the configuration of every other
\* client as it was
C9_ConfigOnlyReconfigured ==
  [][/\ Len(reqs') > Len(reqs) => \A c \in Clients : Config(c)' = Config(c)
     /\ (reqs' = reqs /\ last'.op = "name")
          => \A c \in Clients \ {last'.client} : Config(c)' = Config(c)]_vars

present(v) == v \notin {Absent, Undefined}

resolved(conn) == present(conn.user) /\ present(conn.pass) /\ present(conn.port)

\* C10: every request is made with user, pass and port present in the
\* client's connection configuration; giving a client a name either fails
\* with the invalid-chain error, name and connection as before, or leaves
\* user, pass and port present
C10_ResolvedBeforeCall ==
  /\ \A i \in DOMAIN reqs : resolved(reqs[i].options)
  /\ last.op = "name" =>
       IF last.threw
       THEN /\ last.e = InvalidChain
            /\ Get(own[last.client], "_name") = last.input.name
            /\ Config(last.client) = last.input.conn
       ELSE resolved(Config(last.client))

====
